---- MODULE Spec2Model ----
\* Order workflow and token refresh of multishop_backend (app/serializers.py).
\* The persistent store is shared by concurrently running requests; every ORM
\* call (objects.create, objects.get, save) is one statement on the store, so a
\* request is a sequence of steps that other requests may interleave with.
EXTENDS Integers, Sequences, FiniteSets, TLC

\* ---------------------------------------------------------------- bounds
MaxOrders == 1
MaxItems == 2
MaxCount == 2
MaxPrice == 2
NumCancel == 2
MaxUsers == 2

\* ------------------------------------------------------------- constants
SHIPPING_FEE == 20

WAITING_CONFIRM == "WAITING_CONFIRM"
SUCCESS == "SUCCESS"
CANCEL == "CANCEL"
ORDER_STATUS == {WAITING_CONFIRM, SUCCESS, CANCEL}

Products == {"A", "B"}
Prices == 1..MaxPrice
Counts == 1..MaxCount
Cancels == 1..NumCancel
UserIds == 1..MaxUsers

ACCESS == "ACCESS"
REFRESH == "REFRESH"
TOKEN_TYPE == {ACCESS, REFRESH}

\* What a token string presented to the refresh endpoint can be: a token this server
\* signed (still valid, or past its expiry), a string that does not decode, or a
\* token that decodes but fails another check of the JWT library.
TokenStates == {"valid", "expired", "malformed", "invalid"}
Tokens == [state : TokenStates, type : TOKEN_TYPE, id : UserIds]

\* A key of a request dictionary is present ({v}) or absent ({}).
Get(opt, default) == IF opt = {} THEN default ELSE CHOOSE v \in opt : TRUE

\* Values a client may put in the price fields of a request.
ClientAmounts == {{}, {7}}
ClientStatus == {{}, {SUCCESS}}

\* Order model: the column defaults used when a field is not supplied.
OrderDefaults ==
  [status |-> WAITING_CONFIRM, sum_price |-> 0, shipping_fee |-> 0, total_cost |-> 0]

\* The order fields of a creation request (UserOrderCreateSerializer, fields = '__all__').
ClientHeaders ==
  [status : ClientStatus, sum_price : ClientAmounts,
   shipping_fee : ClientAmounts, total_cost : ClientAmounts]

\* One line item of a creation request (OrderItemCreateSerializer, fields = '__all__';
\* order_price is optional).
ClientItems == [product : Products, count : Counts, order_price : ClientAmounts]

\* A client fills in the price fields of a request (the order's sum_price,
\* shipping_fee and total_cost and every item's order_price) or leaves them all out.
SameAmounts(hdr, its) ==
  /\ hdr.shipping_fee = hdr.sum_price
  /\ hdr.total_cost = hdr.sum_price
  /\ \A i \in 1..Len(its) : its[i].order_price = hdr.sum_price

RECURSIVE SeqsUpTo(_, _)
SeqsUpTo(S, n) ==
  IF n = 0 THEN {<<>>}
  ELSE LET shorter == SeqsUpTo(S, n - 1)
       IN shorter \cup {Append(s, x) : s \in {t \in shorter : Len(t) = n - 1}, x \in S}

ClientItemLists == {s \in SeqsUpTo(ClientItems, MaxItems) : Len(s) >= 1}

VARIABLES
  products,   \* Product table: id -> sale_price, for the products that exist
  orders,     \* Order table: sequence of rows, the id is the index
  items,      \* OrderItem table: sequence of rows in insertion order
  cr,         \* the creation request in flight (UserOrderCreateSerializer)
  cn,         \* the cancel requests in flight (UserOrderCancelSerializer)
  requested,  \* history: order id -> number of line items its request carried
  resolved,   \* history: per OrderItem row, the sale_price read when it was validated
  users,      \* User table: the ids that exist
  issued,     \* the (type, id) payloads this server has signed so far
  rf          \* the last refresh request and its outcome

orderVars == <<products, orders, items, cr, cn, requested, resolved>>
authVars == <<users, issued, rf>>
vars == <<products, orders, items, cr, cn, requested, resolved, users, issued, rf>>

NoOrder == OrderDefaults

CrIdle ==
  [pc |-> "idle", hdr |-> [status |-> {}, sum_price |-> {}, shipping_fee |-> {}, total_cost |-> {}],
   data_items |-> <<>>, valid_items |-> <<>>, inst |-> NoOrder, oid |-> 0, k |-> 0,
   quote |-> 0]

CnIdle == [pc |-> "idle", oid |-> 0, inst |-> NoOrder, result |-> "none"]

RfNone ==
  [n |-> 0, token |-> [state |-> "valid", type |-> ACCESS, id |-> 1], existed |-> FALSE,
   error |-> "none", access_token |-> {}]

Init ==
  /\ products \in [Products -> Prices]
  /\ orders = <<>>
  /\ items = <<>>
  /\ cr = CrIdle
  /\ cn = [c \in Cancels |-> CnIdle]
  /\ requested = <<>>
  /\ resolved = <<>>
  /\ users = {}
  /\ issued = {}
  /\ rf = RfNone

\* ---------------------------------------------------------- pure helpers
RECURSIVE SumSeq(_)
SumSeq(s) == IF s = <<>> THEN 0 ELSE Head(s) + SumSeq(Tail(s))

\* Variant of SumPrice that forgets the quantities.
SumPrice_NoCount(data_items) ==
  SumSeq([i \in 1..Len(data_items) |-> data_items[i].product.sale_price])

\* sum([e['product'].sale_price * e['count'] for e in data_items])
SumPrice(data_items) ==
  SumSeq([i \in 1..Len(data_items) |->
            data_items[i].product.sale_price * data_items[i].count])

\* Order.objects.create(**validated_data): supplied fields win over the defaults.
OrderObjectsCreate(hdr) ==
  [status       |-> Get(hdr.status, OrderDefaults.status),
   sum_price    |-> Get(hdr.sum_price, OrderDefaults.sum_price),
   shipping_fee |-> Get(hdr.shipping_fee, OrderDefaults.shipping_fee),
   total_cost   |-> Get(hdr.total_cost, OrderDefaults.total_cost)]

\* instance.sum_price / shipping_fee / total_cost assignments of create.
SetTotals(inst, sum_price) ==
  [inst EXCEPT !.sum_price = sum_price,
               !.shipping_fee = SHIPPING_FEE,
               !.total_cost = sum_price + SHIPPING_FEE]

\* Variant of OrderItemCreate that keeps an order_price the request carried.
OrderItemCreate_ClientPrice(data) ==
  [order |-> data.order, product |-> data.product.id, count |-> data.count,
   order_price |-> Get(data.order_price, data.product.sale_price)]

\* OrderItemCreateSerializer.create: order_price is overwritten with the sale_price
\* of the product instance the item was validated with.
OrderItemCreate(data) ==
  [order |-> data.order, product |-> data.product.id, count |-> data.count,
   order_price |-> data.product.sale_price]

\* ------------------------------------------------------- order creation
\* The view validates the request: every line item's product id is resolved to the
\* Product row (PrimaryKeyRelatedField), which the validated data then holds.
OrderRequest ==
  /\ cr.pc \in {"idle", "done", "failed"}
  /\ Len(orders) < MaxOrders
  /\ \E hdr \in ClientHeaders, its \in ClientItemLists :
       /\ SameAmounts(hdr, its)
       /\ \A i \in 1..Len(its) : its[i].product \in DOMAIN products
       /\ cr' = [CrIdle EXCEPT
                   !.pc = "validated",
                   !.hdr = hdr,
                   !.quote = SumSeq([i \in 1..Len(its) |->
                                       products[its[i].product] * its[i].count]),
                   !.data_items =
                     [i \in 1..Len(its) |->
                        [product |-> [id |-> its[i].product,
                                      sale_price |-> products[its[i].product]],
                         count |-> its[i].count,
                         order_price |-> its[i].order_price]]]
  /\ UNCHANGED <<products, orders, items, cn, requested, resolved>>
  /\ UNCHANGED authVars

\* create, up to the construction of the item serializer: the header row is
\* inserted, the totals are computed on the in-memory instance only.
CreateHeader ==
  /\ cr.pc = "validated"
  /\ LET row == OrderObjectsCreate(cr.hdr)
         id == Len(orders) + 1
     IN /\ orders' = Append(orders, row)
        /\ requested' = Append(requested, Len(cr.data_items))
        /\ cr' = [cr EXCEPT !.pc = "header", !.oid = id,
                            !.inst = SetTotals(row, SumPrice(cr.data_items))]
  /\ UNCHANGED <<products, items, cn, resolved>>
  /\ UNCHANGED authVars

\* serializer_items.is_valid(raise_exception=True): each product id is resolved
\* again; a product that no longer exists raises.
ItemsIsValid ==
  /\ cr.pc = "header"
  /\ IF \A i \in 1..Len(cr.data_items) : cr.data_items[i].product.id \in DOMAIN products
     THEN cr' = [cr EXCEPT
                   !.pc = "items", !.k = 1, !.data_items = <<>>,
                   !.valid_items =
                     [i \in 1..Len(cr.data_items) |->
                        [order |-> cr.oid,
                         product |-> [id |-> cr.data_items[i].product.id,
                                      sale_price |-> products[cr.data_items[i].product.id]],
                         count |-> cr.data_items[i].count,
                         order_price |-> cr.data_items[i].order_price]]]
     ELSE cr' = [cr EXCEPT !.pc = "failed"]
  /\ UNCHANGED <<products, orders, items, cn, requested, resolved>>
  /\ UNCHANGED authVars

\* serializer_items.save(): one INSERT per line item; the insert of an item whose
\* product row is gone violates the foreign key and raises.
ItemSave ==
  /\ cr.pc = "items"
  /\ LET data == cr.valid_items[cr.k]
     IN IF data.product.id \in DOMAIN products
        THEN /\ items' = Append(items, OrderItemCreate(data))
             /\ resolved' = Append(resolved, data.product.sale_price)
             /\ cr' = [cr EXCEPT !.k = cr.k + 1,
                                 !.pc = IF cr.k = Len(cr.valid_items) THEN "save" ELSE "items"]
        ELSE /\ cr' = [cr EXCEPT !.pc = "failed"]
             /\ UNCHANGED <<items, resolved>>
  /\ UNCHANGED <<products, orders, cn, requested>>
  /\ UNCHANGED authVars

\* instance.save(): every field of the in-memory instance is written to the row.
OrderSave ==
  /\ cr.pc = "save"
  /\ orders' = [orders EXCEPT ![cr.oid] = cr.inst]
  /\ cr' = [cr EXCEPT !.pc = "done"]
  /\ UNCHANGED <<products, items, cn, requested, resolved>>
  /\ UNCHANGED authVars

\* ------------------------------------------------------------ catalog
\* An administrator changes a product's sale_price.
ChangePrice(p, v) ==
  /\ p \in DOMAIN products
  /\ products[p] # v
  /\ products' = [products EXCEPT ![p] = v]
  /\ UNCHANGED <<orders, items, cr, cn, requested, resolved>>
  /\ UNCHANGED authVars

\* An administrator deletes a product that no order item refers to.
DeleteProduct(p) ==
  /\ p \in DOMAIN products
  /\ \A i \in 1..Len(items) : items[i].product # p
  /\ products' = [q \in DOMAIN products \ {p} |-> products[q]]
  /\ UNCHANGED <<orders, items, cr, cn, requested, resolved>>
  /\ UNCHANGED authVars

\* ------------------------------------------------------- cancellation
\* The view loads the order row and hands it to the serializer as `instance`.
\* Cancel requests are numbered in the order in which their rows are loaded.
CancelLoad(c, o) ==
  /\ cn[c].pc = "idle"
  /\ IF c = 1 THEN TRUE ELSE cn[c - 1].pc # "idle"
  /\ o \in 1..Len(orders)
  /\ cn' = [cn EXCEPT ![c] = [pc |-> "loaded", oid |-> o, inst |-> orders[o],
                              result |-> "none"]]
  /\ UNCHANGED <<products, orders, items, cr, requested, resolved>>
  /\ UNCHANGED authVars

\* Variant of Processed that only refuses orders already cancelled.
Processed_OnlyCancelled(instance) == instance.status = CANCEL

\* if instance.status != ORDER_STATUS.WAITING_CONFIRM: raise ClientException(...)
Processed(instance) == instance.status # WAITING_CONFIRM

\* UserOrderCancelSerializer.update(instance, validated_data).
CancelUpdate(c) ==
  /\ cn[c].pc = "loaded"
  /\ IF Processed(cn[c].inst)
     THEN /\ cn' = [cn EXCEPT ![c].pc = "done", ![c].result = "ClientException"]
          /\ UNCHANGED orders
     ELSE LET inst == [cn[c].inst EXCEPT !.status = CANCEL]
          IN /\ orders' = [orders EXCEPT ![cn[c].oid] = inst]
             /\ cn' = [cn EXCEPT ![c].pc = "done", ![c].inst = inst, ![c].result = "ok"]
  /\ UNCHANGED <<products, items, cr, requested, resolved>>
  /\ UNCHANGED authVars

\* The admin layer confirms an order: WAITING_CONFIRM -> SUCCESS, applied as a
\* conditional update of the status column.
Confirm(o) ==
  /\ o \in 1..Len(orders)
  /\ orders[o].status = WAITING_CONFIRM
  /\ orders' = [orders EXCEPT ![o].status = SUCCESS]
  /\ UNCHANGED <<products, items, cr, cn, requested, resolved>>
  /\ UNCHANGED authVars

Next ==
  \/ OrderRequest
  \/ CreateHeader
  \/ ItemsIsValid
  \/ ItemSave
  \/ OrderSave
  \/ \E p \in Products, v \in Prices : ChangePrice(p, v)
  \/ \E p \in Products : DeleteProduct(p)
  \/ \E c \in Cancels, o \in 1..MaxOrders : CancelLoad(c, o)
  \/ \E c \in Cancels : CancelUpdate(c)
  \/ \E o \in 1..MaxOrders : Confirm(o)

Spec == Init /\ [][Next]_vars

\* ------------------------------------------------------ token workflow
\* jwt_util.extract_token(user, type): a signed token carrying the user's id and the kind.
extract_token(user, type) == [state |-> "valid", type |-> type, id |-> user]

\* The classes of the JWT library's exceptions, each with its base classes.
Bases(exc) ==
  CASE exc = "ExpiredSignatureError" -> {"ExpiredSignatureError", "InvalidTokenError"}
    [] exc = "DecodeError" -> {"DecodeError", "InvalidTokenError"}
    [] exc = "ImmatureSignatureError" -> {"ImmatureSignatureError", "InvalidTokenError"}
    [] OTHER -> {}

\* jwt_util.extract_payload(jwt_value): the payload, or the library's exception.
extract_payload(jwt_value) ==
  [raised |-> CASE jwt_value.state = "expired" -> "ExpiredSignatureError"
                [] jwt_value.state = "malformed" -> "DecodeError"
                [] jwt_value.state = "invalid" -> "ImmatureSignatureError"
                [] OTHER -> "none",
   payload |-> [type |-> jwt_value.type, id |-> jwt_value.id]]

\* Variant of validate_refresh_token without the kind check.
validate_refresh_token_AnyKind(jwt_value, user_table) ==
  LET r == extract_payload(jwt_value)
  IN IF "ExpiredSignatureError" \in Bases(r.raised)
       THEN [error |-> "TOKEN_EXPIRED", user |-> {}]
     ELSE IF "DecodeError" \in Bases(r.raised)
       THEN [error |-> "TOKEN_DECODING_ERROR", user |-> {}]
     ELSE IF "InvalidTokenError" \in Bases(r.raised)
       THEN [error |-> "AuthenticationFailed", user |-> {}]
     ELSE IF r.payload.id \notin user_table
       THEN [error |-> "DoesNotExist", user |-> {}]
     ELSE [error |-> "none", user |-> {r.payload.id}]

\* RefreshTokenSerializer.validate_refresh_token: the except clauses in their order,
\* then the kind check, then User.objects.get.
validate_refresh_token(jwt_value, user_table) ==
  LET r == extract_payload(jwt_value)
  IN IF "ExpiredSignatureError" \in Bases(r.raised)
       THEN [error |-> "TOKEN_EXPIRED", user |-> {}]
     ELSE IF "DecodeError" \in Bases(r.raised)
       THEN [error |-> "TOKEN_DECODING_ERROR", user |-> {}]
     ELSE IF "InvalidTokenError" \in Bases(r.raised)
       THEN [error |-> "AuthenticationFailed", user |-> {}]
     ELSE IF r.payload.type # REFRESH
       THEN [error |-> "TOKEN_WRONG_TYPE_REFRESH", user |-> {}]
     ELSE IF r.payload.id \notin user_table
       THEN [error |-> "DoesNotExist", user |-> {}]
     ELSE [error |-> "none", user |-> {r.payload.id}]

\* RegisterSerializer.create: a new user row.
Register(u) ==
  /\ u \notin users
  /\ users' = users \cup {u}
  /\ UNCHANGED <<issued, rf>>
  /\ UNCHANGED orderVars

\* The admin layer removes a user; tokens already signed for it stay in circulation.
DeleteUser(u) ==
  /\ u \in users
  /\ users' = users \ {u}
  /\ UNCHANGED <<issued, rf>>
  /\ UNCHANGED orderVars

\* LoginSerializer: an access and a refresh token for the authenticated user.
Login(u) ==
  /\ u \in users
  /\ issued' = issued \cup {[type |-> extract_token(u, ACCESS).type, id |-> u],
                            [type |-> extract_token(u, REFRESH).type, id |-> u]}
  /\ UNCHANGED <<users, rf>>
  /\ UNCHANGED orderVars

\* A token string signed by this server carries a payload the server issued.
Presentable(tok) ==
  tok.state \in {"valid", "expired"} => [type |-> tok.type, id |-> tok.id] \in issued

\* The refresh endpoint: validate_refresh_token, then get_access_token when it passed.
Refresh(tok) ==
  /\ Presentable(tok)
  /\ LET v == validate_refresh_token(tok, users)
         new == {extract_token(u, ACCESS) : u \in v.user}
     IN /\ rf' = [n |-> 1, token |-> tok, existed |-> tok.id \in users,
                  error |-> v.error, access_token |-> new]
        /\ issued' = issued \cup {[type |-> t.type, id |-> t.id] : t \in new}
  /\ UNCHANGED users
  /\ UNCHANGED orderVars

NextAuth ==
  \/ \E u \in UserIds : Register(u)
  \/ \E u \in UserIds : DeleteUser(u)
  \/ \E u \in UserIds : Login(u)
  \/ \E tok \in Tokens : Refresh(tok)

SpecAuth == Init /\ [][NextAuth]_vars

\* ================================================================ claims
OrderIds == 1..Len(orders)
ItemsOf(o) == {i \in 1..Len(items) : items[i].order = o}

RECURSIVE ItemsTotal(_, _)
\* Sum of order_price * count over the first n OrderItem rows that belong to order o.
ItemsTotal(o, n) ==
  IF n = 0 THEN 0
  ELSE ItemsTotal(o, n - 1)
       + (IF items[n].order = o THEN items[n].order_price * items[n].count ELSE 0)

\* C1: when create saves the order, the persisted sum_price is the sum over the
\* request's line items of the product's sale_price (as read from the Product table
\* when the request was validated) times the count, whatever the client submitted.
C1_SumPriceFromProducts ==
  [][(cr.pc = "save" /\ cr'.pc = "done") => orders'[cr.oid].sum_price = cr.quote]_vars

\* C1 witness: a two-item order has been saved with its computed sum_price although
\* the client had submitted another sum_price.
C1_Witness ==
  /\ cr.pc = "done"
  /\ cr.hdr.sum_price # {} /\ cr.hdr.total_cost # {} /\ cr.hdr.shipping_fee # {}
  /\ Len(cr.valid_items) = 2
  /\ \E i \in 1..2 : cr.valid_items[i].count > 1
  /\ orders[cr.oid].sum_price = cr.quote
  /\ cr.hdr.sum_price # {cr.quote}

\* C2: every persisted order has total_cost = sum_price + shipping_fee and
\* shipping_fee = SHIPPING_FEE, in every reachable state.
C2_TotalCost ==
  \A o \in OrderIds :
    /\ orders[o].total_cost = orders[o].sum_price + orders[o].shipping_fee
    /\ orders[o].shipping_fee = SHIPPING_FEE

C3_Captured ==
  /\ Len(resolved) = Len(items)
  /\ \A i \in 1..Len(items) : items[i].order_price = resolved[i]
C3_Frozen ==
  /\ Len(items') >= Len(items)
  /\ \A i \in 1..Len(items) : items'[i] = items[i]

\* C3: every persisted OrderItem's order_price is the sale_price read from its
\* product when the order's items were validated, never the client's order_price,
\* and no later step (a price change included) alters a persisted item.
C3_OrderPriceCaptured == []C3_Captured /\ [][C3_Frozen]_vars

\* C3 witness: an item whose request carried another order_price is persisted, and
\* its product's sale_price has changed since.
C3_Witness ==
  /\ cr.pc = "done"
  /\ \E i \in 1..Len(items) :
       /\ cr.valid_items[i].order_price # {}
       /\ cr.valid_items[i].order_price # {items[i].order_price}
       /\ items[i].product \in DOMAIN products
       /\ products[items[i].product] # items[i].order_price

\* C4: update succeeds exactly when the instance it is given has status
\* WAITING_CONFIRM, and then persists status CANCEL; otherwise it raises
\* ClientException and writes nothing to the Order table.
C4_CancelGuard ==
  [][\A c \in Cancels :
       (cn[c].pc = "loaded" /\ cn'[c].pc = "done") =>
         IF cn[c].inst.status = WAITING_CONFIRM
         THEN /\ cn'[c].result = "ok"
              /\ orders'[cn[c].oid].status = CANCEL
         ELSE /\ cn'[c].result = "ClientException"
              /\ orders' = orders]_vars

\* C4 witness: one cancel request has succeeded and a later one on the same order,
\* which loaded it as CANCEL, has been refused with the row left unchanged.
C4_Witness ==
  \E c, d \in Cancels :
    /\ cn[c].pc = "done" /\ cn[c].result = "ok"
    /\ cn[d].pc = "done" /\ cn[d].result = "ClientException"
    /\ cn[d].oid = cn[c].oid
    /\ cn[d].inst.status = CANCEL
    /\ orders[cn[d].oid].status = CANCEL

\* C5: once an order's persisted status is SUCCESS or CANCEL, no step changes it.
C5_Terminal ==
  [][\A o \in OrderIds :
       orders[o].status \in {SUCCESS, CANCEL} => orders'[o].status = orders[o].status]_vars

\* C6: two cancel requests on the same order never both report success.
C6_AtMostOneWins ==
  \A c, d \in Cancels :
    (c # d /\ cn[c].oid = cn[d].oid /\ cn[c].pc = "done" /\ cn[d].pc = "done")
      => ~(cn[c].result = "ok" /\ cn[d].result = "ok")

\* C7: every persisted order header is accompanied by all the line items of its
\* request.
C7_HeaderWithAllItems ==
  \A o \in OrderIds : Cardinality(ItemsOf(o)) = requested[o]

\* C8: an order row is inserted with status WAITING_CONFIRM.
C8_InitialStatus ==
  [][Len(orders') > Len(orders) => orders'[Len(orders')].status = WAITING_CONFIRM]_vars

\* C9: the refresh outcome follows the checks in order (token state, then kind,
\* then subject), an ACCESS token for the payload's subject is issued exactly when
\* all three pass, and a REFRESH token is never issued.
C9_RefreshOutcome ==
  rf.n > 0 =>
    LET t == rf.token
        passes == t.state = "valid" /\ t.type = REFRESH /\ rf.existed
    IN /\ t.state = "expired" => rf.error = "TOKEN_EXPIRED"
       /\ t.state = "malformed" => rf.error = "TOKEN_DECODING_ERROR"
       /\ t.state = "invalid" => rf.error = "AuthenticationFailed"
       /\ (t.state = "valid" /\ t.type # REFRESH) => rf.error = "TOKEN_WRONG_TYPE_REFRESH"
       /\ (t.state = "valid" /\ t.type = REFRESH /\ ~rf.existed) => rf.error = "DoesNotExist"
       /\ passes <=> rf.error = "none"
       /\ passes <=> rf.access_token # {}
       /\ \A a \in rf.access_token : a.type = ACCESS /\ a.id = t.id /\ a.state = "valid"

\* C9 witness: a valid ACCESS token issued by login has been presented to refresh
\* and rejected for its kind.
C9_Witness ==
  /\ rf.n > 0
  /\ rf.token.state = "valid"
  /\ rf.token.type = ACCESS
  /\ rf.token.id \in users
  /\ rf.error = "TOKEN_WRONG_TYPE_REFRESH"
  /\ rf.access_token = {}

\* C10: when create saves the order, the header's sum_price equals the sum of
\* order_price * count over the order's persisted items.
C10_HeaderMatchesItems ==
  [][(cr.pc = "save" /\ cr'.pc = "done") =>
       orders'[cr.oid].sum_price = ItemsTotal(cr.oid, Len(items))]_vars
====
